---- MODULE Spec2Model ----
(***************************************************************************)
(* Model of iris_utils/_find_libpyton.py, the libpython locator, of         *)
(* iris_utils/_cli.py, the bind and unbind commands that write it into     *)
(* iris.cpf, and of the installation check of iris/__init__.py.            *)
(*                                                                         *)
(* Python strings are TLA+ strings.  A value that may be None is a         *)
(* sequence of length 0 (None) or 1 (<<s>>).                               *)
(***************************************************************************)
EXTENDS Integers, Sequences, FiniteSets, TLC

VARIABLES
    profile,   \* the platform profile: module globals, sysconfig variables, sys.*
    fs,        \* the filesystem: existing files and symbolic links
    ln,        \* library_name call: arguments and the two results
    cn,        \* candidate_names call: the list yielded
    np,        \* normalize_path call: arguments and result
    dl,        \* what dladdr answers for Py_GetVersion
    findlib,   \* what ctypes.util.find_library answers
    consumer,  \* who iterates: find_libpython, finding_libpython or candidate_paths
    pc,        \* where the generator candidate_paths is suspended
    lib_dirs, lib_basenames,   \* locals of candidate_paths
    di, bi,    \* positions of its loops over lib_dirs and lib_basenames
    cp_seen, cp_out,   \* uniquifying around candidate_paths: seen, and what it yielded
    fl_seen, fl_out,   \* uniquifying around finding_libpython: seen, and what it yielded
    result,    \* what find_libpython returned
    environ,   \* os.environ: the variables the commands and the package read
    disk,      \* the configuration files: path |-> lines
    cli,       \* the bind or unbind command in progress, and what the last one did
    imp        \* the installation checks: import iris, _find_iris_install_dir()

\* the state of one iteration over the candidates
pipe == <<dl, findlib, consumer, pc, lib_dirs, lib_basenames, di, bi,
          cp_seen, cp_out, fl_seen, fl_out, result>>
\* the state of the commands
cliv == <<environ, disk, cli, imp>>
vars == <<profile, fs, ln, cn, np, pipe, cliv>>

---------------------------------------------------------------------------
(* Bounds of the model *)

\* a library_name argument is built from at most this many parts
MaxParts == 3

\* a filesystem holds at most this many symbolic links
MaxLinks == 1

---------------------------------------------------------------------------
(* Python values *)

None == <<>>
Some(s) == <<s>>

\* Python truthiness of a str-or-None value
Truthy(o) == o # None /\ o[1] # ""

\* str.startswith / str.endswith
StartsWith(s, p) == Len(s) >= Len(p) /\ SubSeq(s, 1, Len(p)) = p
EndsWith(s, p) == Len(s) >= Len(p) /\ SubSeq(s, Len(s) - Len(p) + 1, Len(s)) = p

\* s[n:] and s[:n] for 0 <= n
DropFirst(s, n) == SubSeq(s, n + 1, Len(s))
TakeFirst(s, n) == SubSeq(s, 1, n)

\* s[i:i+1], 1-based
CharAt(s, i) == SubSeq(s, i, i)

\* str.rfind over a set of characters, 1-based; 0 when none occurs
RECURSIVE RFindFrom(_, _, _)
RFindFrom(s, chars, i) ==
    IF i = 0 THEN 0
    ELSE IF CharAt(s, i) \in chars THEN i
    ELSE RFindFrom(s, chars, i - 1)
RFind(s, chars) == RFindFrom(s, chars, Len(s))

\* the path separators os.path recognises
Seps(is_windows) == IF is_windows THEN {"\\", "/"} ELSE {"/"}
Sep(is_windows) == IF is_windows THEN "\\" ELSE "/"

\* genericpath._splitext: index of the first non-dot character of the file
\* name before dotIndex, 0 when the name is all leading dots
RECURSIVE FirstNonDot(_, _, _)
FirstNonDot(p, i, dotIndex) ==
    IF i >= dotIndex THEN 0
    ELSE IF CharAt(p, i) # "." THEN i
    ELSE FirstNonDot(p, i + 1, dotIndex)

\* os.path.splitext(p)[0]
splitext_root(p, is_windows) ==
    LET sepIndex == RFind(p, Seps(is_windows))
        dotIndex == RFind(p, {"."})
    IN  IF dotIndex > sepIndex /\ FirstNonDot(p, sepIndex + 1, dotIndex) # 0
        THEN TakeFirst(p, dotIndex - 1)
        ELSE p

---------------------------------------------------------------------------
(* library_name *)

\* variant: the "lib" prefix is stripped on Windows too
library_name_AnyPlatform(name, suffix, is_windows) ==
    LET n1 == IF StartsWith(name, "lib") THEN DropFirst(name, 3) ELSE name
    IN  IF suffix # "" /\ EndsWith(n1, suffix)
        THEN TakeFirst(n1, Len(n1) - Len(suffix))
        ELSE n1
library_name(name, suffix, is_windows) ==
    LET n1 == IF ~is_windows /\ StartsWith(name, "lib")
              THEN DropFirst(name, 3)
              ELSE name
    IN  IF suffix # "" /\ EndsWith(n1, suffix)
        THEN TakeFirst(n1, Len(n1) - Len(suffix))
        ELSE n1

---------------------------------------------------------------------------
(* uniquifying and candidate_names *)

\* the generator uniquifying(items), run to exhaustion
RECURSIVE UniqFrom(_, _, _, _)
UniqFrom(items, i, seen, out) ==
    IF i > Len(items) THEN out
    ELSE UniqFrom(items, i + 1, seen \cup {items[i]},
                  IF items[i] \notin seen THEN Append(out, items[i]) ELSE out)
\* variant: nothing is filtered out
uniquifying_YieldAll(items) == items
uniquifying(items) == UniqFrom(items, 1, {}, <<>>)

\* sys.version_info of the model's interpreter
VersionMajor == "3"
VersionMinor == "11"

\* the VERSION and ABIFLAGS entries of sysdata
SysdataVERSION(p) ==
    IF Truthy(p.VERSION) THEN p.VERSION[1]
    ELSE VersionMajor \o "." \o VersionMinor
SysdataABIFLAGS(p) ==
    IF Truthy(p.ABIFLAGS) THEN p.ABIFLAGS[1]
    ELSE IF Truthy(p.abiflags) THEN p.abiflags[1]
    ELSE ""

\* the four stems of the for loop
Stems(p) ==
    << "python" \o SysdataVERSION(p) \o SysdataABIFLAGS(p),
       "python" \o SysdataVERSION(p),
       "python" \o VersionMajor,
       "python" >>

dlprefix(p) == IF p.is_windows THEN "" ELSE "lib"

\* what the undecorated generator candidate_names yields, in order
\* variant: the stems are yielded before LIBRARY and LDLIBRARY
candidate_names_StemsFirst(p) ==
    [i \in 1..4 |-> dlprefix(p) \o Stems(p)[i] \o p.suffix]
    \o (IF Truthy(p.LIBRARY)
        THEN <<splitext_root(p.LIBRARY[1], p.is_windows) \o p.suffix>>
        ELSE <<>>)
    \o (IF Truthy(p.LDLIBRARY) THEN <<p.LDLIBRARY[1]>> ELSE <<>>)
candidate_names_yields(p) ==
    (IF Truthy(p.LDLIBRARY) THEN <<p.LDLIBRARY[1]>> ELSE <<>>)
    \o (IF Truthy(p.LIBRARY)
        THEN <<splitext_root(p.LIBRARY[1], p.is_windows) \o p.suffix>>
        ELSE <<>>)
    \o [i \in 1..4 |-> dlprefix(p) \o Stems(p)[i] \o p.suffix]

\* @uniquified candidate_names(suffix), as a list
candidate_names(p) == uniquifying(candidate_names_yields(p))

---------------------------------------------------------------------------
(* os.path *)

\* str.rstrip(chars)
RECURSIVE RStrip(_, _)
RStrip(s, chars) ==
    IF s # "" /\ CharAt(s, Len(s)) \in chars
    THEN RStrip(TakeFirst(s, Len(s) - 1), chars)
    ELSE s

\* ntpath.splitdrive for drive-letter paths; posixpath has no drive
DriveLen(p, is_windows) == IF is_windows /\ CharAt(p, 2) = ":" THEN 2 ELSE 0

\* os.path.isabs
\* variant: every path counts as absolute
isabs_Always(p, is_windows) == TRUE
isabs(p, is_windows) ==
    CharAt(p, DriveLen(p, is_windows) + 1) \in Seps(is_windows)

\* os.path.dirname
dirname(p, is_windows) ==
    LET d    == DriveLen(p, is_windows)
        rest == DropFirst(p, d)
        head == TakeFirst(rest, RFind(rest, Seps(is_windows)))
        cut  == RStrip(head, Seps(is_windows))
    IN  TakeFirst(p, d) \o (IF cut # "" THEN cut ELSE head)

\* os.path.join(a, b) for b without a drive
join(a, b, is_windows) ==
    LET d    == DriveLen(a, is_windows)
        rest == DropFirst(a, d)
    IN  IF CharAt(b, 1) \in Seps(is_windows) THEN TakeFirst(a, d) \o b
        ELSE IF rest = "" \/ CharAt(rest, Len(rest)) \in Seps(is_windows) THEN a \o b
        ELSE a \o Sep(is_windows) \o b

\* os.path.realpath of a path: symbolic links are followed; in a loop of
\* links the path at which the loop is detected is returned
RECURSIVE FollowLinks(_, _, _)
FollowLinks(f, p, visited) ==
    IF p \notin DOMAIN f.links THEN p
    ELSE IF p \in visited THEN p
    ELSE FollowLinks(f, f.links[p], visited \cup {p})
realpath(f, p) == FollowLinks(f, p, {})

\* os.path.exists: stat() follows links; a dangling or looping link is absent
exists(f, p) == realpath(f, p) \in f.files

---------------------------------------------------------------------------
(* normalize_path *)

remove_suffix_apple(path) ==
    IF EndsWith(path, ".dylib") THEN TakeFirst(path, Len(path) - 6)
    ELSE IF EndsWith(path, ".so") THEN TakeFirst(path, Len(path) - 3)
    ELSE path

\* normalize_path(path, suffix, is_apple): value is the result, calls the
\* number of normalize_path invocations made, the recursive one included
\* variant: the retry keeps is_apple while a suffix was stripped
RECURSIVE normalize_path_call_Retries(_, _, _, _, _)
normalize_path_call_Retries(f, path, suffix, is_apple, is_windows) ==
    IF ~Truthy(path) THEN [value |-> None, calls |-> 1]
    ELSE IF ~isabs(path[1], is_windows) THEN [value |-> None, calls |-> 1]
    ELSE IF exists(f, path[1]) THEN [value |-> Some(realpath(f, path[1])), calls |-> 1]
    ELSE IF exists(f, path[1] \o suffix)
         THEN [value |-> Some(realpath(f, path[1] \o suffix)), calls |-> 1]
    ELSE IF is_apple
         THEN LET q == remove_suffix_apple(path[1])
                  r == normalize_path_call_Retries(f, Some(q), ".so", q # path[1],
                                                   is_windows)
              IN  [value |-> r.value, calls |-> r.calls + 1]
    ELSE [value |-> None, calls |-> 1]
RECURSIVE normalize_path_call(_, _, _, _, _)
normalize_path_call(f, path, suffix, is_apple, is_windows) ==
    IF ~Truthy(path) THEN [value |-> None, calls |-> 1]
    ELSE IF ~isabs(path[1], is_windows) THEN [value |-> None, calls |-> 1]
    ELSE IF exists(f, path[1]) THEN [value |-> Some(realpath(f, path[1])), calls |-> 1]
    ELSE IF exists(f, path[1] \o suffix)
         THEN [value |-> Some(realpath(f, path[1] \o suffix)), calls |-> 1]
    ELSE IF is_apple
         THEN LET r == normalize_path_call(f, Some(remove_suffix_apple(path[1])),
                                           ".so", FALSE, is_windows)
              IN  [value |-> r.value, calls |-> r.calls + 1]
    ELSE [value |-> None, calls |-> 1]

\* variant: the path found is returned as it is, links unresolved
normalize_path_Unresolved(f, path, suffix, is_apple, is_windows) ==
    IF ~Truthy(path) \/ ~isabs(path[1], is_windows) THEN None
    ELSE IF exists(f, path[1]) THEN path
    ELSE IF exists(f, path[1] \o suffix) THEN Some(path[1] \o suffix)
    ELSE IF ~is_apple THEN None
    ELSE LET q == remove_suffix_apple(path[1])
         IN  IF exists(f, q) THEN Some(q)
             ELSE IF exists(f, q \o ".so") THEN Some(q \o ".so")
             ELSE None
\* normalize_path as its callers see it
normalize_path(f, path, suffix, is_apple, is_windows) ==
    normalize_path_call(f, path, suffix, is_apple, is_windows).value

---------------------------------------------------------------------------
(* linked_libpython, find_library and the directory list *)

\* linked_libpython(): value is what it returns, raised whether it ends with
\* an exception instead.  dl.retcode is dladdr's return code, dl.dli_fname
\* the file name it reports (None for NULL) and dl.decodable whether those
\* bytes decode.
Returned(v) == [raised |-> FALSE, value |-> v]
Raised == [raised |-> TRUE, value |-> None]
linked_libpython_unix(p, d, f) ==
    IF d.retcode = 0 THEN Returned(None)
    ELSE IF d.dli_fname = None \/ ~d.decodable THEN Raised
    ELSE LET path == realpath(f, d.dli_fname[1])
         IN  IF path = realpath(f, p.executable) THEN Returned(None)
             ELSE Returned(Some(path))
linked_libpython(p, d, f) ==
    IF p.is_windows THEN Returned(None) ELSE linked_libpython_unix(p, d, f)

\* where the system keeps its shared libraries
SystemLibDir(p) ==
    IF p.is_windows THEN "C:\\Windows\\System32"
    ELSE IF p.is_apple THEN "/usr/local/lib"
    ELSE "/lib"

\* ctypes.util.find_library(name): None when the lookup fails, else a full
\* path (macOS, Windows) or a bare soname (Linux)
find_library(fl, p, name) ==
    IF name \notin fl.hits THEN None
    ELSE IF fl.full
         THEN Some(join(SystemLibDir(p), dlprefix(p) \o name \o p.suffix, p.is_windows))
    ELSE Some("lib" \o name \o ".so.1.0")

\* variant: only None is skipped, the empty string is appended
append_truthy_NotNone(list, item) ==
    IF item # None THEN Append(list, item[1]) ELSE list
append_truthy(list, item) ==
    IF Truthy(item) THEN Append(list, item[1]) ELSE list

\* the platform's fallback directory
FallbackDir(p) ==
    IF p.is_windows THEN dirname(p.executable, p.is_windows)
    ELSE join(dirname(dirname(p.executable, p.is_windows), p.is_windows), "lib",
              p.is_windows)

\* lib_dirs as candidate_paths builds it
\* variant: the <parent>/lib fallback on every platform
lib_dirs_of_UnixFallback(p) ==
    LET a == append_truthy(<<>>, p.LIBPL)
        b == append_truthy(a, p.srcdir)
        c == append_truthy(b, p.LIBDIR)
        d == Append(c, join(dirname(dirname(p.executable, p.is_windows), p.is_windows),
                            "lib", p.is_windows))
        e == append_truthy(d, p.PYTHONFRAMEWORKPREFIX)
    IN  e \o <<p.exec_prefix, join(p.exec_prefix, "lib", p.is_windows)>>
\* variant: exec_prefix and exec_prefix/lib come first
lib_dirs_of_PrefixFirst(p) ==
    LET a == <<p.exec_prefix, join(p.exec_prefix, "lib", p.is_windows)>>
        b == append_truthy(a, p.LIBPL)
        c == append_truthy(b, p.srcdir)
        d == append_truthy(c, p.LIBDIR)
        e == Append(d, FallbackDir(p))
    IN  append_truthy(e, p.PYTHONFRAMEWORKPREFIX)
lib_dirs_of(p) ==
    LET a == append_truthy(<<>>, p.LIBPL)
        b == append_truthy(a, p.srcdir)
        c == append_truthy(b, p.LIBDIR)
        d == Append(c, FallbackDir(p))
        e == append_truthy(d, p.PYTHONFRAMEWORKPREFIX)
    IN  e \o <<p.exec_prefix, join(p.exec_prefix, "lib", p.is_windows)>>

---------------------------------------------------------------------------
(* Inputs *)

Suffixes == {".so", ".dylib", ".dll", ""}

\* names made of at most n parts
NameParts == {"lib", "python3.11", ".so", ".dll"}
RECURSIVE NamesOf(_)
NamesOf(n) ==
    IF n = 0 THEN {""}
    ELSE LET shorter == NamesOf(n - 1)
         IN  shorter \cup {a \o b : a \in shorter, b \in NameParts}

\* the part of a profile candidate_names reads
NameProfiles ==
    [ is_windows : BOOLEAN,
      suffix     : Suffixes,
      LDLIBRARY  : {None, Some(""), Some("libpython3.11.so"), Some("libpython3.11.a"),
                    Some("Python.framework/Versions/3.11/Python")},
      LIBRARY    : {None, Some("libpython3.11.a"), Some("python311.lib"), Some(".a")},
      VERSION    : {None, Some("3.11"), Some("311")},
      ABIFLAGS   : {None, Some(""), Some("m")},
      abiflags   : {None, Some("d")} ]

\* what every profile of a platform has in common
LinuxBase ==
    [ is_windows : {FALSE}, is_apple : {FALSE}, suffix : {".so"},
      VERSION : {Some("3.11")}, ABIFLAGS : {Some("")}, abiflags : {None},
      PYTHONFRAMEWORKPREFIX : {Some("")} ]
MacBase ==
    [ is_windows : {FALSE}, is_apple : {TRUE}, suffix : {".dylib"},
      VERSION : {Some("3.11")}, ABIFLAGS : {Some("")}, abiflags : {None},
      srcdir : {Some(".")} ]
WinBase ==
    [ is_windows : {TRUE}, is_apple : {FALSE}, suffix : {".dll"},
      VERSION : {Some("311")}, ABIFLAGS : {None}, abiflags : {None},
      LIBPL : {None}, srcdir : {None}, PYTHONFRAMEWORKPREFIX : {None} ]

\* records r and t with disjoint fields, merged
Merge(r, t) ==
    [k \in DOMAIN r \cup DOMAIN t |-> IF k \in DOMAIN r THEN r[k] ELSE t[k]]
Extend(base, more) == {Merge(b, m) : b \in base, m \in more}

\* the profiles candidate_paths is listed under
PathProfiles ==
    Extend(LinuxBase,
           [ LDLIBRARY : {None, Some("libpython3.11.so")},
             LIBRARY : {Some("libpython3.11.a")},
             LIBPL : {None, Some("/usr/lib/python3.11/config")},
             srcdir : {None, Some(".")},
             LIBDIR : {None, Some(""), Some("/usr/lib")},
             exec_prefix : {"/usr", "/opt/venv"},
             executable : {"/usr/bin/python3", "/opt/venv/bin/python3"} ])
    \cup
    Extend(MacBase,
           [ LDLIBRARY : {Some("Python.framework/Versions/3.11/Python")},
             LIBRARY : {None, Some("libpython3.11.a")},
             LIBPL : {None, Some("/Library/Frameworks/Python.framework/lib/config")},
             LIBDIR : {Some("/Library/Frameworks/Python.framework/lib")},
             PYTHONFRAMEWORKPREFIX : {None, Some("/Library/Frameworks")},
             exec_prefix : {"/Library/Frameworks/Python.framework"},
             executable : {"/Library/Frameworks/Python.framework/bin/python3"} ])
    \cup
    Extend(WinBase,
           [ LDLIBRARY : {None, Some("python311.dll")},
             LIBRARY : {None, Some("python311.dll"), Some("libpython311.a")},
             LIBDIR : {None, Some("C:\\venv\\lib")},
             exec_prefix : {"C:\\Python311", "C:\\venv"},
             executable : {"C:\\Python311\\python.exe", "C:\\venv\\Scripts\\python.exe",
                           "C:\\tools\\lib\\python.exe"} ])

\* the profiles libpython is searched under
FindProfiles ==
    Extend(LinuxBase,
           [ LDLIBRARY : {None, Some("libpython3.11.so")},
             LIBRARY : {Some("libpython3.11.a")},
             LIBPL : {Some("/usr/lib/python3.11/config")},
             srcdir : {Some(".")},
             LIBDIR : {Some("/usr/lib")},
             exec_prefix : {"/opt/venv"},
             executable : {"/opt/venv/bin/python3"} ])
    \cup
    Extend(MacBase,
           [ LDLIBRARY : {Some("Python.framework/Versions/3.11/Python")},
             LIBRARY : {Some("libpython3.11.a")},
             LIBPL : {None},
             LIBDIR : {Some("/Library/Frameworks/Python.framework/lib")},
             PYTHONFRAMEWORKPREFIX : {None, Some("/Library/Frameworks")},
             exec_prefix : {"/Library/Frameworks/Python.framework"},
             executable : {"/Library/Frameworks/Python.framework/bin/python3"} ])
    \cup
    Extend(WinBase,
           [ LDLIBRARY : {None},
             LIBRARY : {Some("python311.dll")},
             LIBDIR : {None},
             exec_prefix : {"C:\\Python311", "C:\\venv"},
             executable : {"C:\\venv\\Scripts\\python.exe"} ])

\* the library the first basename names, for find_library
FirstLibraryName(p) == library_name(candidate_names(p)[1], p.suffix, p.is_windows)

\* the last candidate directory joined to the first basename
LastDirCandidate(p) ==
    LET dirs == lib_dirs_of(p)
    IN  join(dirs[Len(dirs)], candidate_names(p)[1], p.is_windows)

\* a versioned library file outside the candidate directories
RealLibrary(p) ==
    IF p.is_windows THEN "C:\\store\\python311.dll" ELSE "/store/libpython3.11.so.1.0"

\* the paths of a profile's filesystem
FsPaths(p) ==
    { LastDirCandidate(p), RealLibrary(p),
      join(SystemLibDir(p), dlprefix(p) \o FirstLibraryName(p) \o p.suffix, p.is_windows) }

\* dladdr's answers: failure, no file name, bytes that do not decode, the
\* executable itself (static link), a library of the filesystem
DlAnswers(p) ==
    { [retcode |-> 0, dli_fname |-> None, decodable |-> TRUE],
      [retcode |-> 1, dli_fname |-> None, decodable |-> TRUE],
      [retcode |-> 1, dli_fname |-> Some(RealLibrary(p)), decodable |-> FALSE],
      [retcode |-> 1, dli_fname |-> Some(p.executable), decodable |-> TRUE],
      [retcode |-> 1, dli_fname |-> Some(RealLibrary(p)), decodable |-> TRUE],
      [retcode |-> 1, dli_fname |-> Some(LastDirCandidate(p)), decodable |-> TRUE] }

\* find_library's answers: nothing found, or the first library found
FindLibAnswers(p) ==
    { [hits |-> {}, full |-> FALSE],
      [hits |-> {FirstLibraryName(p)}, full |-> p.is_windows \/ p.is_apple] }

\* no command runs and nothing is imported
NoEnviron == [IRISINSTALLDIR |-> None]
NoDisk == <<>>
NoCli == [pc |-> "idle"]
NoImp == [imported |-> FALSE]
CliIdle ==
    /\ environ = NoEnviron
    /\ disk = NoDisk
    /\ cli = NoCli
    /\ imp = NoImp

NoDl == [retcode |-> 0]
NoFindlib == [hits |-> {}]

PipeIdle ==
    /\ dl = NoDl
    /\ findlib = NoFindlib
    /\ consumer = "none"
    /\ pc = "idle"
    /\ lib_dirs = <<>>
    /\ lib_basenames = <<>>
    /\ di = 0
    /\ bi = 0
    /\ cp_seen = {}
    /\ cp_out = <<>>
    /\ fl_seen = {}
    /\ fl_out = <<>>
    /\ result = None

NoProfile == [is_windows |-> FALSE]
NoFs == [files |-> {}, links |-> <<>>]
NoLn == [step |-> 0]
NoCn == [step |-> 0]
NoNp == [step |-> 0]

\* the filesystems over the paths U: at most MaxLinks of them are symbolic
\* links (to any path of U), any of the others may be files
FsStates(U) ==
    UNION { { [files |-> F, links |-> L] : F \in SUBSET (U \ S), L \in [S -> U] }
            : S \in {T \in SUBSET U : Cardinality(T) <= MaxLinks} }

\* the arguments of a normalize_path call
NormPlatforms ==
    { [is_windows |-> FALSE, is_apple |-> FALSE, suffix |-> ".so"],
      [is_windows |-> FALSE, is_apple |-> TRUE,  suffix |-> ".dylib"],
      [is_windows |-> FALSE, is_apple |-> TRUE,  suffix |-> ".so"],
      [is_windows |-> TRUE,  is_apple |-> FALSE, suffix |-> ".dll"] }
NormPaths(is_windows) ==
    IF is_windows
    THEN {None, Some(""), Some("C:\\a\\libfoo"), Some("C:\\a\\libfoo.dll"),
          Some("a\\libfoo.dll"), Some("libfoo")}
    ELSE {None, Some(""), Some("libfoo.so"), Some("a/b/libfoo"), Some("/a/b/libfoo"),
          Some("/a/b/libfoo.so"), Some("/a/b/libfoo.dylib"), Some("/a/b/libfoo.so.so"),
          Some("/a/b/libfoo.so.dylib")}

\* the paths a normalize_path call can probe, and one step beyond
ProbePaths(path, suffix) ==
    IF ~Truthy(path) THEN {"/a/b/libfoo", "/r/libfoo.1"}
    ELSE LET p == path[1]
             q == remove_suffix_apple(p)
         IN  {p, p \o suffix, q, q \o ".so", remove_suffix_apple(q), "/r/libfoo.1"}

---------------------------------------------------------------------------
(* library_name applied once, then to its own result *)

InitLib ==
    /\ CliIdle
    /\ profile = NoProfile
    /\ fs = NoFs
    /\ cn = NoCn
    /\ np = NoNp
    /\ PipeIdle
    /\ ln \in [ step : {0}, name : NamesOf(MaxParts), suffix : Suffixes,
                is_windows : BOOLEAN, r1 : {""}, r2 : {""} ]

LibraryNameOnce ==
    /\ ln.step = 0
    /\ ln' = [ln EXCEPT !.step = 1,
                        !.r1 = library_name(ln.name, ln.suffix, ln.is_windows)]
    /\ UNCHANGED <<cliv, profile, fs, cn, np, pipe>>

LibraryNameTwice ==
    /\ ln.step = 1
    /\ ln' = [ln EXCEPT !.step = 2,
                        !.r2 = library_name(ln.r1, ln.suffix, ln.is_windows)]
    /\ UNCHANGED <<cliv, profile, fs, cn, np, pipe>>

NextLib == LibraryNameOnce \/ LibraryNameTwice
SpecLib == InitLib /\ [][NextLib]_vars

---------------------------------------------------------------------------
(* list(candidate_names(suffix)) *)

InitNames ==
    /\ CliIdle
    /\ profile \in NameProfiles
    /\ fs = NoFs
    /\ ln = NoLn
    /\ np = NoNp
    /\ PipeIdle
    /\ cn = [step |-> 0, out |-> <<>>]

CallCandidateNames ==
    /\ cn.step = 0
    /\ cn' = [step |-> 1, out |-> candidate_names(profile)]
    /\ UNCHANGED <<cliv, profile, fs, ln, np, pipe>>

NextNames == CallCandidateNames
SpecNames == InitNames /\ [][NextNames]_vars

---------------------------------------------------------------------------
(* normalize_path(path, suffix, is_apple) on a filesystem *)

InitNorm ==
    /\ CliIdle
    /\ profile = NoProfile
    /\ ln = NoLn
    /\ cn = NoCn
    /\ PipeIdle
    /\ \E pl \in NormPlatforms : \E path \in NormPaths(pl.is_windows) :
         /\ np = [step |-> 0, path |-> path, suffix |-> pl.suffix,
                  is_apple |-> pl.is_apple, is_windows |-> pl.is_windows,
                  value |-> None, calls |-> 0]
         /\ fs \in FsStates(ProbePaths(path, pl.suffix))

CallNormalizePath ==
    /\ np.step = 0
    /\ LET r == normalize_path_call(fs, np.path, np.suffix, np.is_apple, np.is_windows)
       IN  np' = [np EXCEPT !.step = 1, !.value = r.value, !.calls = r.calls]
    /\ UNCHANGED <<cliv, profile, fs, ln, cn, pipe>>

NextNorm == CallNormalizePath
SpecNorm == InitNorm /\ [][NextNorm]_vars

---------------------------------------------------------------------------
(* Iterating over candidate_paths(): by list(), by finding_libpython() or,  *)
(* through it, by find_libpython().  Each action runs candidate_paths to    *)
(* its next yield and hands the candidate to the consumers above it.        *)

PipeStart(c) ==
    /\ consumer = c
    /\ pc = "start"
    /\ lib_dirs = <<>>
    /\ lib_basenames = <<>>
    /\ di = 0
    /\ bi = 0
    /\ cp_seen = {}
    /\ cp_out = <<>>
    /\ fl_seen = {}
    /\ fl_out = <<>>
    /\ result = None
    /\ ln = NoLn
    /\ cn = NoCn
    /\ np = NoNp

\* variant: finding_libpython yields every normalized path, seen or not
Consume_YieldSeen(c, nextpc) ==
    LET n == normalize_path(fs, c, profile.suffix, profile.is_apple, profile.is_windows)
    IN  IF consumer = "candidate_paths" \/ ~Truthy(n)
        THEN /\ pc' = nextpc
             /\ UNCHANGED <<fl_seen, fl_out, result>>
        ELSE /\ fl_seen' = fl_seen \cup {n[1]}
             /\ fl_out' = Append(fl_out, n[1])
             /\ IF consumer = "find_libpython"
                THEN /\ result' = Some(realpath(fs, n[1]))
                     /\ pc' = "returned"
                ELSE /\ pc' = nextpc
                     /\ UNCHANGED result

\* finding_libpython's loop body for one candidate, and what uniquifying and
\* find_libpython do with a path it yields
Consume(c, nextpc) ==
    LET n == normalize_path(fs, c, profile.suffix, profile.is_apple, profile.is_windows)
    IN  IF consumer = "candidate_paths" \/ ~Truthy(n)
        THEN /\ pc' = nextpc
             /\ UNCHANGED <<fl_seen, fl_out, result>>
        ELSE /\ fl_seen' = fl_seen \cup {n[1]}
             /\ IF n[1] \in fl_seen
                THEN /\ pc' = nextpc
                     /\ UNCHANGED <<fl_out, result>>
                ELSE /\ fl_out' = Append(fl_out, n[1])
                     /\ IF consumer = "find_libpython"
                        THEN /\ result' = Some(realpath(fs, n[1]))
                             /\ pc' = "returned"
                        ELSE /\ pc' = nextpc
                             /\ UNCHANGED result

\* uniquifying around candidate_paths receives the candidate c
Deliver(c, nextpc) ==
    /\ cp_seen' = cp_seen \cup {c}
    /\ IF c \in cp_seen
       THEN /\ pc' = nextpc
            /\ UNCHANGED <<cp_out, fl_seen, fl_out, result>>
       ELSE /\ cp_out' = Append(cp_out, c)
            /\ Consume(c, nextpc)

\* yield linked_libpython()
YieldLinked ==
    /\ pc = "start"
    /\ LET r == linked_libpython(profile, dl, fs)
       IN  IF r.raised
           THEN /\ pc' = "raised"
                /\ UNCHANGED <<cp_seen, cp_out, fl_seen, fl_out, result>>
           ELSE Deliver(r.value, "dirs")
    /\ UNCHANGED <<cliv, profile, fs, ln, cn, np, dl, findlib, consumer,
                   lib_dirs, lib_basenames, di, bi>>

\* lib_dirs and lib_basenames are built
BuildLibDirs ==
    /\ pc = "dirs"
    /\ lib_dirs' = lib_dirs_of(profile)
    /\ lib_basenames' = candidate_names(profile)
    /\ di' = 1
    /\ bi' = 1
    /\ pc' = "join"
    /\ UNCHANGED <<cliv, profile, fs, ln, cn, np, dl, findlib, consumer,
                   cp_seen, cp_out, fl_seen, fl_out, result>>

\* yield os.path.join(directory, basename)
YieldJoined ==
    /\ pc = "join"
    /\ LET last == di = Len(lib_dirs) /\ bi = Len(lib_basenames)
       IN  /\ Deliver(Some(join(lib_dirs[di], lib_basenames[bi], profile.is_windows)),
                      IF last THEN "find" ELSE "join")
           /\ IF bi < Len(lib_basenames)
              THEN di' = di /\ bi' = bi + 1
              ELSE di' = di + 1 /\ bi' = 1
    /\ UNCHANGED <<cliv, profile, fs, ln, cn, np, dl, findlib, consumer,
                   lib_dirs, lib_basenames>>

\* yield ctypes.util.find_library(library_name(basename))
YieldFindLibrary ==
    /\ pc = "find"
    /\ Deliver(find_library(findlib, profile,
                            library_name(lib_basenames[bi], profile.suffix,
                                         profile.is_windows)),
               IF bi = Len(lib_basenames) THEN "exhausted" ELSE "find")
    /\ bi' = bi + 1
    /\ UNCHANGED <<cliv, profile, fs, ln, cn, np, dl, findlib, consumer,
                   lib_dirs, lib_basenames, di>>

\* candidate_paths is exhausted: the loops above it end, find_libpython
\* returns None
Exhausted ==
    /\ pc = "exhausted"
    /\ pc' = "done"
    /\ UNCHANGED <<cliv, profile, fs, ln, cn, np, dl, findlib, consumer, lib_dirs,
                   lib_basenames, di, bi, cp_seen, cp_out, fl_seen, fl_out, result>>

Next == YieldLinked \/ BuildLibDirs \/ YieldJoined \/ YieldFindLibrary \/ Exhausted

\* find_libpython()
Init ==
    /\ CliIdle
    /\ profile \in FindProfiles
    /\ fs \in FsStates(FsPaths(profile))
    /\ dl \in DlAnswers(profile)
    /\ findlib \in FindLibAnswers(profile)
    /\ PipeStart("find_libpython")
Spec == Init /\ [][Next]_vars

\* list(candidate_paths())
InitPaths ==
    /\ CliIdle
    /\ profile \in PathProfiles
    /\ fs = NoFs
    /\ dl \in DlAnswers(profile)
    /\ findlib \in FindLibAnswers(profile)
    /\ PipeStart("candidate_paths")
SpecPaths == InitPaths /\ [][Next]_vars

\* list(finding_libpython())
InitFinding ==
    /\ CliIdle
    /\ profile \in FindProfiles
    /\ fs \in FsStates(FsPaths(profile))
    /\ dl \in DlAnswers(profile)
    /\ findlib \in FindLibAnswers(profile)
    /\ PipeStart("finding_libpython")
SpecFinding == InitFinding /\ [][Next]_vars

---------------------------------------------------------------------------
(* The installation directory: iris/__init__.py and _find_iris_install_dir *)

\* how a call ends: raised is None, or the exception that left it
Ok(v) == [raised |-> None, value |-> v]
Raise(type, msg) == [raised |-> Some([type |-> type, msg |-> msg]), value |-> None]

\* the built-in exception classes involved, each with its base class;
\* EnvironmentError is an alias of OSError
EnvironmentError == "OSError"
BaseOf ==
    [ Exception |-> "BaseException", OSError |-> "Exception",
      FileNotFoundError |-> "OSError", RuntimeError |-> "Exception",
      AttributeError |-> "Exception", LookupError |-> "Exception",
      IndexError |-> "LookupError" ]
RECURSIVE issubclass(_, _)
issubclass(type, cls) ==
    \/ type = cls
    \/ (type \in DOMAIN BaseOf /\ issubclass(BaseOf[type], cls))

\* what `except cls` catches of a call's outcome
Fails(r, cls) == r.raised # None /\ issubclass(r.raised[1].type, cls)

\* import iris, up to the installation check
import_iris(env) ==
    IF env.IRISINSTALLDIR = None
    THEN Raise("Exception", "Cannot find InterSystems IRIS installation directory")
    ELSE Ok(None)

\* _find_iris_install_dir()
find_iris_install_dir(env) ==
    LET installdir == IF Truthy(env.IRISINSTALLDIR) THEN env.IRISINSTALLDIR
                      ELSE env.ISC_PACKAGE_INSTALLDIR
    IN  IF ~Truthy(installdir)
        THEN Raise(EnvironmentError, "IRISINSTALLDIR environment variable must be set")
        ELSE Ok(installdir[1])

\* the values of the installation variables: unset, empty, a directory
InstallDir(is_windows) == IF is_windows THEN "C:\\InterSystems\\IRIS" ELSE "/usr/irissys"
InstallDirs(is_windows) ==
    {InstallDir(is_windows), IF is_windows THEN "D:\\iris" ELSE "/opt/iris"}
EnvValues(dirs) == {None, Some("")} \cup {Some(d) : d \in dirs}
EnvStates(installs, venvs, merges) ==
    [ IRISINSTALLDIR : installs,
      ISC_PACKAGE_INSTALLDIR : installs,
      VIRTUAL_ENV : venvs,
      ISC_CPF_MERGE_FILE : merges ]

InitEnv ==
    /\ profile = NoProfile
    /\ fs = NoFs
    /\ ln = NoLn
    /\ cn = NoCn
    /\ np = NoNp
    /\ PipeIdle
    /\ disk = NoDisk
    /\ cli = NoCli
    /\ environ \in EnvStates(EnvValues(InstallDirs(FALSE)), {None}, {None})
                 \cup EnvStates(EnvValues(InstallDirs(TRUE)), {None}, {None})
    /\ imp = [imported |-> FALSE, import |-> Ok(None),
              looked |-> FALSE, installdir |-> Ok(None)]

ImportIris ==
    /\ ~imp.imported
    /\ imp' = [imp EXCEPT !.imported = TRUE, !.import = import_iris(environ)]
    /\ UNCHANGED <<profile, fs, ln, cn, np, pipe, environ, disk, cli>>

FindIrisInstallDir ==
    /\ ~imp.looked
    /\ imp' = [imp EXCEPT !.looked = TRUE, !.installdir = find_iris_install_dir(environ)]
    /\ UNCHANGED <<profile, fs, ln, cn, np, pipe, environ, disk, cli>>

NextEnv == ImportIris \/ FindIrisInstallDir
SpecEnv == InitEnv /\ [][NextEnv]_vars

---------------------------------------------------------------------------
(* Configuration files: a file is the string it holds *)

\* str.find(sub) >= 0
Contains(s, sub) ==
    \E i \in 1..(Len(s) - Len(sub) + 1) : SubSeq(s, i, i + Len(sub) - 1) = sub

\* str.lower()
UpperCase == << "A", "B", "C", "D", "E", "F", "G", "H", "I", "J", "K", "L", "M",
                "N", "O", "P", "Q", "R", "S", "T", "U", "V", "W", "X", "Y", "Z" >>
LowerCase == << "a", "b", "c", "d", "e", "f", "g", "h", "i", "j", "k", "l", "m",
                "n", "o", "p", "q", "r", "s", "t", "u", "v", "w", "x", "y", "z" >>
LowerOf ==
    [c \in {UpperCase[i] : i \in DOMAIN UpperCase} |->
       LowerCase[CHOOSE i \in DOMAIN UpperCase : UpperCase[i] = c]]
LowerChar(c) == IF c \in DOMAIN LowerOf THEN LowerOf[c] ELSE c
RECURSIVE Lower(_)
Lower(s) == IF s = "" THEN "" ELSE LowerChar(CharAt(s, 1)) \o Lower(DropFirst(s, 1))

\* f.readlines(): the lines of a text, each with its line end
RECURSIVE readlines(_)
readlines(text) ==
    IF text = "" THEN <<>>
    ELSE IF \E i \in 1..Len(text) : CharAt(text, i) = "\n"
         THEN LET n == CHOOSE i \in 1..Len(text) :
                         /\ CharAt(text, i) = "\n"
                         /\ \A j \in 1..(i - 1) : CharAt(text, j) # "\n"
              IN  <<TakeFirst(text, n)>> \o readlines(DropFirst(text, n))
    ELSE <<text>>

\* f.writelines(lines): the text written
RECURSIVE writelines(_)
writelines(lines) == IF lines = <<>> THEN "" ELSE Head(lines) \o writelines(Tail(lines))

\* the disk d after the file f is written with text
Write(d, f, text) == [x \in DOMAIN d \cup {f} |-> IF x = f THEN text ELSE d[x]]

\* _write_cpf_content(filename, lines)
write_cpf_content(d, filename, lines) == Write(d, filename, writelines(lines))

\* str(v) inside an f-string, for a str-or-None value
Str(v) == IF v = None THEN "None" ELSE v[1]

\* _get_config_section(lines): the list as it leaves the call and the
\* position of the section line, counted from 1
get_config_section(lines) ==
    LET hits == {i \in DOMAIN lines : Contains(Lower(lines[i]), "[config]")}
    IN  IF hits = {}
        THEN [lines |-> Append(lines, "[config]\n"), config_section |-> Len(lines) + 1]
        ELSE [lines |-> lines,
              config_section |-> CHOOSE i \in hits : \A j \in hits : i <= j]

\* sys.version
SysVersion == VersionMajor \o "." \o VersionMinor \o ".4 (main)"

\* _get_python_config(libpython, path, libpythonversion)
get_python_config(libpython, path, libpythonversion) ==
    [ runtime |-> "PythonRuntimeLibrary=" \o Str(libpython) \o "\n",
      path    |-> "PythonPath=" \o Str(path) \o "\n",
      version |-> "PythonRuntimeLibraryVersion=" \o Str(libpythonversion) \o "\n" ]

\* the last line at or after config_section that starts with key; 0 if none
KeyLine(lines, config_section, key) ==
    LET hits == {i \in config_section..Len(lines) : StartsWith(lines[i], key)}
    IN  IF hits = {} THEN 0 ELSE CHOOSE i \in hits : \A j \in hits : j <= i

\* _update_existing_config(lines, config_section, config): the list as the
\* call leaves it
update_existing_config(lines, config_section, config) ==
    LET runtime == KeyLine(lines, config_section, "PythonRuntimeLibrary=")
        path    == KeyLine(lines, config_section, "PythonPath=")
        version == KeyLine(lines, config_section, "PythonRuntimeLibraryVersion=")
        missing == (IF runtime = 0 THEN "runtime" ELSE "")
                   \o (IF runtime = 0 /\ path = 0 THEN ", " ELSE "")
                   \o (IF path = 0 THEN "path" ELSE "")
    IN  IF runtime = 0 \/ path = 0
        THEN Raise("RuntimeError", "Missing required keys: " \o missing)
        ELSE Ok([i \in DOMAIN lines |->
                   IF i = version THEN config.version
                   ELSE IF i = path THEN config.path
                   ELSE IF i = runtime THEN config.runtime
                   ELSE lines[i]])

\* how a call that writes files ends: the exception, if any, and the disk
Wrote(d) == [raised |-> None, disk |-> d]
Failed(r, d) == [raised |-> r.raised, disk |-> d]

\* update_iris_cpf(libpython, path)
update_iris_cpf(env, d, libpython, path, is_windows) ==
    LET installdir == find_iris_install_dir(env)
    IN  IF installdir.raised # None THEN Failed(installdir, d)
        ELSE
        LET iris_cpf == join(installdir.value, "iris.cpf", is_windows)
        IN  IF iris_cpf \notin DOMAIN d
            THEN Failed(Raise("RuntimeError", "Configuration file not found: " \o iris_cpf), d)
            ELSE
            LET cs      == get_config_section(readlines(d[iris_cpf]))
                config  == get_python_config(libpython, path, Some(TakeFirst(SysVersion, 4)))
                updated == update_existing_config(cs.lines, cs.config_section, config)
            IN  IF updated.raised # None THEN Failed(updated, d)
                ELSE Wrote(write_cpf_content(d, iris_cpf, updated.value))

\* _create_new_merge_file(libpython, path); instance is how
\* find_iris_instance ends, and the merge it triggers leaves the files alone
create_new_merge_file(env, d, libpython, path, is_windows, instance) ==
    LET installdir == find_iris_install_dir(env)
    IN  IF installdir.raised # None THEN Failed(installdir, d)
        ELSE
        LET iris_cpf == join(installdir.value, "iris_python_merge.cpf", is_windows)
            config   == get_python_config(libpython, path, Some(TakeFirst(SysVersion, 4)))
            written  == Write(d, iris_cpf,
                              "[config]\n" \o writelines(<<config.runtime, config.path,
                                                           config.version>>))
        IN  IF instance.raised # None THEN Failed(instance, written)
            ELSE Wrote(written)

\* update_merge_iris_cpf(libpython, path, libpythonversion)
update_merge_iris_cpf(env, d, libpython, path, libpythonversion, is_windows, instance) ==
    LET merge_cpf_file == env.ISC_CPF_MERGE_FILE
    IN  IF ~Truthy(merge_cpf_file)
        THEN create_new_merge_file(env, d, libpython, path, is_windows, instance)
        ELSE IF merge_cpf_file[1] \notin DOMAIN d
        THEN Failed(Raise("FileNotFoundError", merge_cpf_file[1]), d)
        ELSE
        LET cs     == get_config_section(readlines(d[merge_cpf_file[1]]))
            config == get_python_config(libpython, path, libpythonversion)
        IN  IF cs.config_section = Len(cs.lines)
            THEN Wrote(write_cpf_content(d, merge_cpf_file[1],
                         cs.lines \o <<config.runtime, config.path, config.version>>))
            ELSE LET updated == update_existing_config(cs.lines, cs.config_section,
                                                       config)
                 IN  IF updated.raised # None THEN Failed(updated, d)
                     ELSE Wrote(write_cpf_content(d, merge_cpf_file[1], updated.value))

\* _get_path()
get_path(env, is_windows) ==
    IF env.VIRTUAL_ENV # None
    THEN join(join(join(env.VIRTUAL_ENV[1], "lib", is_windows),
                   "python" \o TakeFirst(SysVersion, 4), is_windows),
              "site-packages", is_windows)
    ELSE ""

\* a virtual environment of the platform
VirtualEnv(is_windows) == IF is_windows THEN "C:\\venv" ELSE "/opt/venv"

\* hashlib.md5(path.encode()).hexdigest(): the digests of the Python paths
\* _get_path returns here; any other path has a digest of its own
md5_hexdigest(path) ==
    IF path = "" THEN "d41d8cd98f00b204e9800998ecf8427e"
    ELSE IF path = "C:\\venv\\lib\\python3.11\\site-packages"
    THEN "a44c22d0be9680ae2ced07190f49bf4f"
    ELSE IF path = "/opt/venv/lib/python3.11/site-packages"
    THEN "2967e02d8b734b23a77f59489cf75f49"
    ELSE "md5:" \o path

\* variant: a backup that exists is kept, not overwritten
make_a_backup_KeepFirst(d, iris_cpf, path) ==
    LET backup_file == iris_cpf \o "." \o md5_hexdigest(path)
    IN  IF iris_cpf \notin DOMAIN d
        THEN Failed(Raise("FileNotFoundError", iris_cpf), d)
        ELSE IF backup_file \in DOMAIN d THEN Wrote(d)
        ELSE Wrote(Write(d, backup_file, d[iris_cpf]))
\* _make_a_backup(iris_cpf, path)
make_a_backup(d, iris_cpf, path) ==
    LET backup_file == iris_cpf \o "." \o md5_hexdigest(path)
    IN  IF iris_cpf \notin DOMAIN d
        THEN Failed(Raise("FileNotFoundError", iris_cpf), d)
        ELSE Wrote(Write(d, backup_file, d[iris_cpf]))

\* variant: the backup is looked up under the hash of the empty path
get_backup_file_EmptyPath(env, d, path, is_windows) ==
    LET installdir == find_iris_install_dir(env)
    IN  IF installdir.raised # None THEN installdir
        ELSE LET iris_cpf    == join(installdir.value, "iris.cpf", is_windows)
                 backup_file == iris_cpf \o "." \o md5_hexdigest("")
             IN  Ok(IF backup_file \in DOMAIN d THEN Some(backup_file) ELSE None)
\* _get_backup_file(path)
get_backup_file(env, d, path, is_windows) ==
    LET installdir == find_iris_install_dir(env)
    IN  IF installdir.raised # None THEN installdir
        ELSE LET iris_cpf    == join(installdir.value, "iris.cpf", is_windows)
                 backup_file == iris_cpf \o "." \o md5_hexdigest(path)
             IN  Ok(IF backup_file \in DOMAIN d THEN Some(backup_file) ELSE None)

\* the first line at or after config_section that starts with key, or None
FirstKeyLine(lines, config_section, key) ==
    LET hits == {i \in config_section..Len(lines) : StartsWith(lines[i], key)}
    IN  IF hits = {} THEN None
        ELSE Some(lines[CHOOSE i \in hits : \A j \in hits : i <= j])

\* unbind()
unbind(env, d, is_windows, instance) ==
    LET backup_file == get_backup_file(env, d, get_path(env, is_windows), is_windows)
    IN  IF backup_file.raised # None THEN Failed(backup_file, d)
        ELSE
        LET iris_cpf == join(find_iris_install_dir(env).value, "iris.cpf", is_windows)
        IN  IF is_windows
            THEN IF backup_file.value # None
                 THEN Wrote(Write(d, iris_cpf, d[backup_file.value[1]]))
                 ELSE Wrote(d)
            ELSE IF backup_file.value # None
            THEN LET cs == get_config_section(readlines(d[backup_file.value[1]]))
                 IN  update_merge_iris_cpf(env, d,
                       FirstKeyLine(cs.lines, cs.config_section, "PythonRuntimeLibrary="),
                       FirstKeyLine(cs.lines, cs.config_section, "PythonPath="),
                       FirstKeyLine(cs.lines, cs.config_section,
                                    "PythonRuntimeLibraryVersion="),
                       is_windows, instance)
            ELSE update_merge_iris_cpf(env, d, Some(""), Some(""), Some(""),
                                       is_windows, instance)

---------------------------------------------------------------------------
(* The commands bind and unbind, run one after the other *)

\* at most this many commands are run
MaxCommands == 3

\* how find_iris_instance ends: no instance of the installation is listed,
\* one is, or its line of `iris all` has no ">"
InstanceAnswers ==
    { Ok(None), Ok(Some("IRIS")), Raise("IndexError", "list index out of range") }

\* iris.cpf as installed, with the keys filled in, and without the keys
CpfTexts ==
    { "[ConfigFile]\nVersion=2024.1\n[config]\nPythonPath=\nPythonRuntimeLibrary=\nPythonRuntimeLibraryVersion=\n[Startup]\n",
      "[Config]\nPythonRuntimeLibrary=/old/libpython3.9.so\nPythonPath=/old\n",
      "[config]\nVersion=2024.1\n" }

\* a backup left by an earlier run
StaleBackup == "[config]\nPythonRuntimeLibrary=/stale\nPythonPath=\n"

\* merge files: no section, the section last, the keys present, a key missing
MergeTexts ==
    { "[Startup]\n", "[config]\n", "[CONFIG]\nPythonPath=\nPythonRuntimeLibrary=\n",
      "[config]\nPythonPath=\n" }

\* the merge file ISC_CPF_MERGE_FILE names
MergeFile == "/tmp/merge.cpf"

\* platforms, filesystems and dladdr answers the commands run under
BindProfiles ==
    {p \in FindProfiles : ~p.is_apple /\ p.LDLIBRARY = None /\ p.exec_prefix # "C:\\Python311"}
BindFs(p) == {NoFs, [files |-> {LastDirCandidate(p)}, links |-> <<>>]}
BindDl(p) ==
    IF p.is_windows THEN {[retcode |-> 0, dli_fname |-> None, decodable |-> TRUE]}
    ELSE { [retcode |-> 0, dli_fname |-> None, decodable |-> TRUE],
           [retcode |-> 1, dli_fname |-> None, decodable |-> TRUE] }

\* the configuration files of an environment: iris.cpf or none, a stale
\* backup or none, the merge file or none
Disks(env, is_windows) ==
    LET installdir == find_iris_install_dir(env)
        iris_cpf   == join(installdir.value, "iris.cpf", is_windows)
        backup     == iris_cpf \o "." \o md5_hexdigest(get_path(env, is_windows))
        cpfs       == {NoDisk} \cup {Write(NoDisk, iris_cpf, t) : t \in CpfTexts}
        backups    == cpfs \cup {Write(d, backup, StaleBackup) : d \in cpfs}
    IN  IF installdir.raised # None THEN {NoDisk}
        ELSE IF ~Truthy(env.ISC_CPF_MERGE_FILE) THEN backups
        ELSE backups \cup {Write(d, env.ISC_CPF_MERGE_FILE[1], t) :
                             d \in backups, t \in MergeTexts}

\* no command has run
InitBind ==
    /\ ln = NoLn
    /\ cn = NoCn
    /\ np = NoNp
    /\ imp = NoImp
    /\ profile \in BindProfiles
    /\ fs \in BindFs(profile)
    /\ dl \in BindDl(profile)
    /\ findlib = [hits |-> {}, full |-> FALSE]
    /\ consumer = "none"
    /\ pc = "idle"
    /\ lib_dirs = <<>>
    /\ lib_basenames = <<>>
    /\ di = 0
    /\ bi = 0
    /\ cp_seen = {}
    /\ cp_out = <<>>
    /\ fl_seen = {}
    /\ fl_out = <<>>
    /\ result = None
    /\ environ \in EnvStates({None, Some(InstallDir(profile.is_windows))},
                             {None, Some(VirtualEnv(profile.is_windows))},
                             IF profile.is_windows THEN {None} ELSE {None, Some(MergeFile)})
    /\ disk \in Disks(environ, profile.is_windows)
    /\ cli = [ pc |-> "idle", op |-> "none", commands |-> 0, find_calls |-> 0,
               libpython |-> None, raised |-> None, disk0 |-> disk,
               backed |-> {}, lookup |-> None, bound |-> None ]

\* a command starts: what it finds on the disk is remembered
Started(op) ==
    [cli EXCEPT !.op = op, !.commands = cli.commands + 1, !.find_calls = 0,
                !.libpython = None, !.raised = None, !.disk0 = disk,
                !.lookup = None]

\* bind(), up to its call of find_libpython()
BindStart ==
    /\ cli.pc = "idle"
    /\ cli.commands < MaxCommands
    /\ cli' = [Started("bind") EXCEPT !.pc = "find", !.find_calls = 1]
    /\ consumer' = "find_libpython"
    /\ pc' = "start"
    /\ lib_dirs' = <<>>
    /\ lib_basenames' = <<>>
    /\ di' = 0
    /\ bi' = 0
    /\ cp_seen' = {}
    /\ cp_out' = <<>>
    /\ fl_seen' = {}
    /\ fl_out' = <<>>
    /\ result' = None
    /\ UNCHANGED <<profile, fs, ln, cn, np, dl, findlib, environ, disk, imp>>

\* variant: bind calls find_libpython a second time when it returned nothing
BindCheck_Retry ==
    /\ cli.pc = "find"
    /\ pc \in {"returned", "done", "raised"}
    /\ cli' = IF pc = "raised"
              THEN [cli EXCEPT !.pc = "idle",
                      !.raised = Raise("AttributeError",
                                       "'NoneType' object has no attribute 'decode'").raised]
              ELSE IF ~Truthy(result) /\ cli.find_calls < 2
              THEN [cli EXCEPT !.find_calls = cli.find_calls + 1]
              ELSE IF ~Truthy(result)
              THEN [cli EXCEPT !.pc = "idle",
                      !.raised = Raise("RuntimeError", "libpython not found").raised]
              ELSE [cli EXCEPT !.pc = "backup", !.libpython = result]
    /\ IF pc = "done" /\ cli.find_calls < 2
       THEN pc' = "start" /\ cp_seen' = {} /\ cp_out' = <<>>
       ELSE UNCHANGED <<pc, cp_seen, cp_out>>
    /\ UNCHANGED <<profile, fs, ln, cn, np, dl, findlib, consumer, lib_dirs,
                   lib_basenames, di, bi, fl_seen, fl_out, result, environ, disk, imp>>
\* bind(): find_libpython() has ended; `if not libpython: raise`
BindCheck ==
    /\ cli.pc = "find"
    /\ pc \in {"returned", "done", "raised"}
    /\ cli' = IF pc = "raised"
              THEN [cli EXCEPT !.pc = "idle",
                      !.raised = Raise("AttributeError",
                                       "'NoneType' object has no attribute 'decode'").raised]
              ELSE IF ~Truthy(result)
              THEN [cli EXCEPT !.pc = "idle",
                      !.raised = Raise("RuntimeError", "libpython not found").raised]
              ELSE [cli EXCEPT !.pc = "backup", !.libpython = result]
    /\ UNCHANGED <<pc, cp_seen, cp_out>>
    /\ UNCHANGED <<profile, fs, ln, cn, np, dl, findlib, consumer, lib_dirs,
                   lib_basenames, di, bi, fl_seen, fl_out, result, environ, disk, imp>>

\* bind(): _get_path(), _find_iris_install_dir(), _make_a_backup()
BindBackup ==
    /\ cli.pc = "backup"
    /\ LET path       == get_path(environ, profile.is_windows)
           installdir == find_iris_install_dir(environ)
           iris_cpf   == join(installdir.value, "iris.cpf", profile.is_windows)
           backup     == make_a_backup(disk, iris_cpf, path)
       IN  IF installdir.raised # None
           THEN /\ cli' = [cli EXCEPT !.pc = "idle", !.raised = installdir.raised]
                /\ UNCHANGED disk
           ELSE /\ disk' = backup.disk
                /\ cli' = IF backup.raised # None
                          THEN [cli EXCEPT !.pc = "idle", !.raised = backup.raised]
                          ELSE [cli EXCEPT !.pc = "update",
                                           !.backed = cli.backed \cup {path}]
    /\ UNCHANGED <<profile, fs, ln, cn, np, pipe, environ, imp>>

\* bind(): update_iris_cpf() on Windows, update_merge_iris_cpf() elsewhere
BindUpdate ==
    /\ cli.pc = "update"
    /\ \E instance \in InstanceAnswers :
         LET path     == get_path(environ, profile.is_windows)
             iris_cpf == join(find_iris_install_dir(environ).value, "iris.cpf",
                              profile.is_windows)
             r == IF profile.is_windows
                  THEN update_iris_cpf(environ, disk, cli.libpython, Some(path),
                                       profile.is_windows)
                  ELSE update_merge_iris_cpf(environ, disk, cli.libpython, Some(path),
                                             Some(TakeFirst(SysVersion, 4)),
                                             profile.is_windows, instance)
         IN  /\ disk' = r.disk
             /\ cli' = [cli EXCEPT !.pc = "idle", !.raised = r.raised,
                          !.bound = IF r.raised = None THEN Some(cli.disk0[iris_cpf])
                                    ELSE cli.bound]
    /\ UNCHANGED <<profile, fs, ln, cn, np, pipe, environ, imp>>

\* unbind()
Unbind ==
    /\ cli.pc = "idle"
    /\ cli.commands < MaxCommands
    /\ \E instance \in InstanceAnswers :
         LET r      == unbind(environ, disk, profile.is_windows, instance)
             lookup == get_backup_file(environ, disk,
                                       get_path(environ, profile.is_windows),
                                       profile.is_windows)
         IN  /\ disk' = r.disk
             /\ cli' = [Started("unbind") EXCEPT !.raised = r.raised,
                                                 !.lookup = lookup.value]
    /\ UNCHANGED <<profile, fs, ln, cn, np, pipe, environ, imp>>

NextBind == BindStart \/ Next \/ BindCheck \/ BindBackup \/ BindUpdate \/ Unbind
SpecBind == InitBind /\ [][NextBind]_vars

---------------------------------------------------------------------------
(* Properties *)

\* position of the first occurrence of x in the sequence s
FirstIdx(s, x) == CHOOSE i \in DOMAIN s : s[i] = x /\ \A j \in 1..(i - 1) : s[j] # x
Range(s) == {s[i] : i \in DOMAIN s}
NoDuplicates(s) == \A i, j \in DOMAIN s : i # j => s[i] # s[j]

\* C1: find_libpython returns the first path finding_libpython yields, and
\* None when finding_libpython is exhausted without yielding one.
C1_FindReturnsFirst ==
    /\ pc = "returned" => (fl_out # <<>> /\ result = Some(fl_out[1]))
    /\ pc = "done" => (fl_out = <<>> /\ result = None)
    /\ pc \notin {"returned", "done"} => result = None

\* find_libpython returned a path reached through a symbolic link
C1_Witness ==
    /\ pc = "returned"
    /\ result = Some(fl_out[1])
    /\ cp_out[Len(cp_out)] # result
    /\ cp_out[Len(cp_out)][1] \in DOMAIN fs.links

\* the directories of C4, in the priority order it states
PriorityDirs(p) ==
    LET w == p.is_windows
        opt(v) == IF Truthy(v) THEN <<v[1]>> ELSE <<>>
    IN  opt(p.LIBPL) \o opt(p.srcdir) \o opt(p.LIBDIR)
        \o << IF w THEN dirname(p.executable, w)
              ELSE join(dirname(dirname(p.executable, w), w), "lib", w) >>
        \o opt(p.PYTHONFRAMEWORKPREFIX)
        \o << p.exec_prefix, join(p.exec_prefix, "lib", w) >>

\* every candidate of C4 in the order it states, repeats included
PriorityPaths ==
    LET dirs  == PriorityDirs(profile)
        names == candidate_names(profile)
        nn    == Len(names)
    IN  << linked_libpython(profile, dl, fs).value >>
        \o [k \in 1..(Len(dirs) * nn) |->
               Some(join(dirs[((k - 1) \div nn) + 1], names[((k - 1) % nn) + 1],
                         profile.is_windows))]
        \o [k \in 1..nn |->
               find_library(findlib, profile,
                            library_name(names[k], profile.suffix, profile.is_windows))]

\* C4: candidate_paths yields the linked-library path first, then the joined
\* candidates directory by directory in the priority order LIBPL, srcdir,
\* LIBDIR, platform fallback, PYTHONFRAMEWORKPREFIX, exec_prefix,
\* exec_prefix/lib, then the find-library lookups; nothing is yielded twice.
C4_PathsPriorityOrder ==
    pc \notin {"idle", "start", "raised"} =>
        LET E == PriorityPaths
        IN  /\ \A i \in DOMAIN cp_out : cp_out[i] \in Range(E)
            /\ \A i, j \in DOMAIN cp_out :
                   i < j => FirstIdx(E, cp_out[i]) < FirstIdx(E, cp_out[j])
            /\ cp_out[1] = E[1]
            /\ pc \in {"exhausted", "done"} => Range(cp_out) = Range(E)

\* a full listing where a directory occurs twice in the list
C4_Witness ==
    /\ pc = "done"
    /\ profile.LIBDIR = Some("/usr/lib")
    /\ profile.exec_prefix = "/usr"
    /\ cp_out[1] # None
    /\ Len(cp_out) < Len(PriorityPaths)
    /\ Some("/usr/lib/libpython3.so") \in Range(cp_out)
    /\ Some("libpython3.11.so.1.0") \in Range(cp_out)

\* C5 as stated: candidate_paths never yields a null or empty entry.
C5_NoNullOrEmpty ==
    \A i \in DOMAIN cp_out : cp_out[i] # None /\ cp_out[i] # Some("")

\* C5 amended: candidate_paths yields a null entry, once, exactly when the
\* linked-library path is not found or a find-library lookup fails (the
\* linked-library path comes first, null or not); it never yields an empty
\* entry, and a directory whose config variable (LIBPL, srcdir, LIBDIR,
\* PYTHONFRAMEWORKPREFIX) is absent or empty contributes no candidates.
C5_NullOnlyForFailedLookups ==
    pc \notin {"idle", "start", "raised"} =>
        LET linked  == linked_libpython(profile, dl, fs).value
            looked  == IF pc = "find" THEN bi - 1
                       ELSE IF pc \in {"exhausted", "done"} THEN Len(lib_basenames)
                       ELSE 0
            failed  == \E k \in 1..looked :
                           find_library(findlib, profile,
                                        library_name(lib_basenames[k], profile.suffix,
                                                     profile.is_windows)) = None
        IN  /\ Some("") \notin Range(cp_out)
            /\ Cardinality({i \in DOMAIN cp_out : cp_out[i] = None}) <= 1
            /\ (None \in Range(cp_out)) <=> (linked = None \/ failed)
            /\ cp_out[1] = linked
            /\ pc # "dirs" =>
                   /\ "" \notin Range(lib_dirs)
                   /\ Len(lib_dirs) = 3 + (IF Truthy(profile.LIBPL) THEN 1 ELSE 0)
                                        + (IF Truthy(profile.srcdir) THEN 1 ELSE 0)
                                        + (IF Truthy(profile.LIBDIR) THEN 1 ELSE 0)
                                        + (IF Truthy(profile.PYTHONFRAMEWORKPREFIX)
                                           THEN 1 ELSE 0)

\* the linked library was found, a find-library lookup failed, LIBDIR is empty
C5_Witness ==
    /\ pc = "done"
    /\ cp_out[1] # None
    /\ cp_out[Len(cp_out)] = None
    /\ profile.LIBDIR = Some("")
    /\ profile.LIBPL = None

\* <parent of executable dir>/lib
UnixFallbackDir(p) ==
    join(dirname(dirname(p.executable, p.is_windows), p.is_windows), "lib", p.is_windows)

\* no basename but LDLIBRARY and the one made from LIBRARY starts with "lib"
SynthesizedWithoutLib ==
    \A i \in DOMAIN lib_basenames :
        StartsWith(lib_basenames[i], "lib") =>
            \/ profile.LDLIBRARY = Some(lib_basenames[i])
            \/ /\ Truthy(profile.LIBRARY)
               /\ lib_basenames[i] =
                      splitext_root(profile.LIBRARY[1], profile.is_windows) \o profile.suffix

\* C6 as stated: on Windows the directory list never includes
\* <parent of executable dir>/lib, and no synthesized basename has "lib".
C6_NoUnixFallbackOnWindows ==
    (profile.is_windows /\ pc \in {"join", "find", "exhausted", "done"}) =>
        /\ UnixFallbackDir(profile) \notin Range(lib_dirs)
        /\ SynthesizedWithoutLib

\* C6 amended: on Windows the platform-fallback entry of the directory list
\* is the executable's directory; <parent of executable dir>/lib is in the
\* list only when it is also the executable's directory, a configured
\* directory, exec_prefix or exec_prefix/lib (as in a virtual environment);
\* and no synthesized basename has the "lib" prefix.
C6_WindowsFallbackIsExeDir ==
    (profile.is_windows /\ pc \in {"join", "find", "exhausted", "done"}) =>
        LET p == profile
            k == (IF Truthy(p.LIBPL) THEN 1 ELSE 0) + (IF Truthy(p.srcdir) THEN 1 ELSE 0)
                 + (IF Truthy(p.LIBDIR) THEN 1 ELSE 0)
            configured == {v[1] : v \in {x \in {p.LIBPL, p.srcdir, p.LIBDIR,
                                                 p.PYTHONFRAMEWORKPREFIX} : Truthy(x)}}
        IN  /\ lib_dirs[k + 1] = dirname(p.executable, TRUE)
            /\ Len(lib_dirs) = k + 3 + (IF Truthy(p.PYTHONFRAMEWORKPREFIX) THEN 1 ELSE 0)
            /\ UnixFallbackDir(p) \in Range(lib_dirs) =>
                   UnixFallbackDir(p) \in configured \cup
                       {dirname(p.executable, TRUE), p.exec_prefix,
                        join(p.exec_prefix, "lib", TRUE)}
            /\ SynthesizedWithoutLib

\* a standard Windows installation: no <parent>/lib in the list
C6_Witness ==
    /\ profile.is_windows
    /\ pc = "done"
    /\ profile.executable = "C:\\Python311\\python.exe"
    /\ profile.exec_prefix = "C:\\Python311"
    /\ lib_dirs = <<"C:\\Python311", "C:\\Python311", "C:\\Python311\\lib">>
    /\ "C:\\lib" \notin Range(lib_dirs)
    /\ "python311.dll" \in Range(lib_basenames)

\* C10: the locator never ends with an exception, whatever the profile, the
\* filesystem and the answer of the dynamic linker.
C10_NeverRaises == pc # "raised"

\* C2: candidate_names never yields the empty string and never yields the
\* same basename twice, whatever the platform profile.
C2_NamesNonEmptyDistinct ==
    cn.step = 1 =>
        /\ \A i \in DOMAIN cn.out : cn.out[i] # ""
        /\ NoDuplicates(cn.out)

\* a profile where two yields of the generator coincide and one was dropped
C2_Witness ==
    /\ cn.step = 1
    /\ Truthy(profile.LIBRARY)
    /\ Len(cn.out) < 5
    /\ NoDuplicates(cn.out)

\* the priority list of C3: LDLIBRARY if set, LIBRARY with its extension
\* replaced by the suffix if set, then the four prefixed and suffixed stems
PriorityNames(p) ==
    LET pre == IF p.is_windows THEN "" ELSE "lib"
        ver == IF Truthy(p.VERSION) THEN p.VERSION[1] ELSE "3.11"
        abi == IF Truthy(p.ABIFLAGS) THEN p.ABIFLAGS[1]
               ELSE IF Truthy(p.abiflags) THEN p.abiflags[1] ELSE ""
    IN  (IF Truthy(p.LDLIBRARY) THEN <<p.LDLIBRARY[1]>> ELSE <<>>)
        \o (IF Truthy(p.LIBRARY)
            THEN <<splitext_root(p.LIBRARY[1], p.is_windows) \o p.suffix>>
            ELSE <<>>)
        \o << pre \o "python" \o ver \o abi \o p.suffix,
              pre \o "python" \o ver \o p.suffix,
              pre \o "python3" \o p.suffix,
              pre \o "python" \o p.suffix >>

\* C3: candidate_names yields the basenames in priority order (each at the
\* place of its first occurrence in the priority list); with LDLIBRARY unset,
\* LIBRARY = "libpython3.11.a" and suffix ".so" the first name is
\* "libpython3.11.so" and the synthesized stems follow.
C3_NamesPriorityOrder ==
    cn.step = 1 =>
        LET E == PriorityNames(profile)
        IN  /\ Range(cn.out) = Range(E)
            /\ \A i, j \in DOMAIN cn.out :
                   i < j => FirstIdx(E, cn.out[i]) < FirstIdx(E, cn.out[j])
            /\ ( /\ ~Truthy(profile.LDLIBRARY)
                 /\ profile.LIBRARY = Some("libpython3.11.a")
                 /\ profile.suffix = ".so" )
               => /\ cn.out[1] = "libpython3.11.so"
                  /\ ( /\ ~profile.is_windows
                       /\ profile.VERSION \in {None, Some("3.11")}
                       /\ ~Truthy(profile.ABIFLAGS)
                       /\ ~Truthy(profile.abiflags) )
                     => cn.out = <<"libpython3.11.so", "libpython3.so", "libpython.so">>
                  /\ ( /\ ~profile.is_windows
                       /\ profile.VERSION \in {None, Some("3.11")}
                       /\ profile.ABIFLAGS = Some("m") )
                     => cn.out = <<"libpython3.11.so", "libpython3.11m.so",
                                   "libpython3.so", "libpython.so">>

C3_Witness ==
    /\ cn.step = 1
    /\ profile.LDLIBRARY = None
    /\ profile.LIBRARY = Some("libpython3.11.a")
    /\ profile.suffix = ".so"
    /\ profile.ABIFLAGS = Some("m")
    /\ cn.out[1] = "libpython3.11.so"
    /\ cn.out[2] = "libpython3.11m.so"

\* an absolute path, as the platform's os.path.isabs sees it
IsAbsolute(p, is_windows) ==
    IF is_windows
    THEN \/ SubSeq(p, 1, 1) \in {"\\", "/"}
         \/ (SubSeq(p, 2, 2) = ":" /\ SubSeq(p, 3, 3) \in {"\\", "/"})
    ELSE SubSeq(p, 1, 1) = "/"

\* C7: normalize_path returns None for a null candidate, an empty candidate
\* and every non-absolute candidate, on every platform and whatever files
\* exist (also when the relative path, or it plus the suffix, exists).
C7_NullEmptyRelativeIsNone ==
    (np.step = 1 /\ (~Truthy(np.path) \/ ~IsAbsolute(np.path[1], np.is_windows)))
        => np.value = None

\* a relative candidate that exists, rejected all the same
C7_Witness ==
    /\ np.step = 1
    /\ np.path = Some("libfoo.so")
    /\ "libfoo.so" \in fs.files
    /\ np.value = None

\* the path with one trailing ".dylib" or ".so" removed
StripOne(p) ==
    IF Len(p) >= 6 /\ SubSeq(p, Len(p) - 5, Len(p)) = ".dylib" THEN SubSeq(p, 1, Len(p) - 6)
    ELSE IF Len(p) >= 3 /\ SubSeq(p, Len(p) - 2, Len(p)) = ".so" THEN SubSeq(p, 1, Len(p) - 3)
    ELSE p

\* C8: on macOS, when an absolute candidate exists neither as it is nor with
\* the suffix appended, normalize_path retries exactly once: the result is the
\* non-apple normalization, with suffix ".so", of the candidate with one
\* trailing ".dylib" or ".so" removed; "/a/b/libfoo.so" with only
\* "/a/b/libfoo" existing gives the canonical form of "/a/b/libfoo".
C8_OneAppleRetry ==
    ( /\ np.step = 1
      /\ np.is_apple
      /\ Truthy(np.path)
      /\ IsAbsolute(np.path[1], np.is_windows)
      /\ ~exists(fs, np.path[1])
      /\ ~exists(fs, np.path[1] \o np.suffix) )
    => LET q == StripOne(np.path[1])
       IN  /\ np.calls = 2
           /\ np.value = IF exists(fs, q) THEN Some(realpath(fs, q))
                         ELSE IF exists(fs, q \o ".so") THEN Some(realpath(fs, q \o ".so"))
                         ELSE None
           /\ (np.path = Some("/a/b/libfoo.so") /\ exists(fs, "/a/b/libfoo"))
              => np.value = Some(realpath(fs, "/a/b/libfoo"))

\* "/a/b/libfoo.so" is asked for and only "/a/b/libfoo" exists, as a link
C8_Witness ==
    /\ np.step = 1
    /\ np.is_apple
    /\ np.path = Some("/a/b/libfoo.so")
    /\ fs.files = {"/r/libfoo.1"}
    /\ DOMAIN fs.links = {"/a/b/libfoo"}
    /\ fs.links["/a/b/libfoo"] = "/r/libfoo.1"
    /\ np.calls = 2
    /\ np.value = Some("/r/libfoo.1")

\* C9 as stated: library_name(library_name(x)) = library_name(x) for every x.
C9_Idempotent == ln.step = 2 => ln.r2 = ln.r1

\* C9 amended: library_name strips one leading "lib" (when not Windows) and
\* then one trailing suffix, once each; applying it twice equals applying it
\* once exactly when the once-stripped name has no further "lib" prefix
\* (when not Windows) and no further trailing suffix.
C9_StripsOnce ==
    ln.step = 2 =>
        LET pre  == IF ~ln.is_windows /\ StartsWith(ln.name, "lib") THEN "lib" ELSE ""
            rest == DropFirst(ln.name, Len(pre))
            post == IF ln.suffix # "" /\ EndsWith(rest, ln.suffix) THEN ln.suffix ELSE ""
        IN  /\ ln.name = pre \o ln.r1 \o post
            /\ (ln.r2 = ln.r1) <=>
                   /\ ~(~ln.is_windows /\ StartsWith(ln.r1, "lib"))
                   /\ ~(ln.suffix # "" /\ EndsWith(ln.r1, ln.suffix))

\* a name with both a "lib" prefix and the suffix, stripped once and stable
C9_Witness ==
    /\ ln.step = 2
    /\ ~ln.is_windows
    /\ ln.name = "libpython3.11.so"
    /\ ln.suffix = ".so"
    /\ ln.r1 = "python3.11"
    /\ ln.r2 = ln.r1

\* the candidates of cp_out that normalize_path turns into the path e
MatchingCandidates(e) ==
    { k \in DOMAIN cp_out :
        normalize_path(fs, cp_out[k], profile.suffix, profile.is_apple,
                       profile.is_windows) = Some(e) }
FirstMatch(e) ==
    CHOOSE k \in MatchingCandidates(e) : \A j \in MatchingCandidates(e) : k <= j

\* C14: every element finding_libpython yields is the canonical form of an
\* absolute path that exists (an existing file that is no symbolic link), no
\* element is yielded twice even when several candidates resolve to the same
\* file, and the elements are in the order of their first matching candidate
\* in candidate_paths.
C14_FindingCanonicalDistinctOrdered ==
    /\ \A i \in DOMAIN fl_out :
         /\ IsAbsolute(fl_out[i], profile.is_windows)
         /\ fl_out[i] \in fs.files
         /\ fl_out[i] \notin DOMAIN fs.links
         /\ realpath(fs, fl_out[i]) = fl_out[i]
         /\ MatchingCandidates(fl_out[i]) # {}
    /\ NoDuplicates(fl_out)
    /\ \A i, j \in DOMAIN fl_out :
         i < j => FirstMatch(fl_out[i]) < FirstMatch(fl_out[j])
    /\ pc = "done" =>
         \A k \in DOMAIN cp_out :
           LET n == normalize_path(fs, cp_out[k], profile.suffix, profile.is_apple,
                                   profile.is_windows)
           IN  Truthy(n) => n[1] \in Range(fl_out)

\* finding_libpython ended with two libraries, one of them reached by two
\* candidates, one of these through a symbolic link
C14_Witness ==
    /\ consumer = "finding_libpython"
    /\ pc = "done"
    /\ Len(fl_out) = 2
    /\ \E e \in Range(fl_out) :
         /\ Cardinality(MatchingCandidates(e)) >= 2
         /\ \E k \in MatchingCandidates(e) : cp_out[k][1] \in DOMAIN fs.links

\* neither installation variable is in the environment
NeitherSet == environ.IRISINSTALLDIR = None /\ environ.ISC_PACKAGE_INSTALLDIR = None

\* C13: with neither IRISINSTALLDIR nor ISC_PACKAGE_INSTALLDIR set, importing
\* iris and _find_iris_install_dir both fail with an EnvironmentError; with
\* either one set, neither fails.
C13_BothFailWithEnvironmentError ==
    /\ imp.imported =>
         IF NeitherSet THEN Fails(imp.import, EnvironmentError)
         ELSE imp.import.raised = None
    /\ imp.looked =>
         IF NeitherSet THEN Fails(imp.installdir, EnvironmentError)
         ELSE imp.installdir.raised = None

\* iris.cpf of the installation the commands run on
IrisCpf == join(find_iris_install_dir(environ).value, "iris.cpf", profile.is_windows)

\* the backup file of the Python path p
BackupOf(p) == IrisCpf \o "." \o md5_hexdigest(p)

\* C11: bind calls find_libpython exactly once; when it returns nothing bind
\* ends with RuntimeError("libpython not found") without a second call, and
\* no backup has been created and no configuration file written.
C11_BindFailsBeforeWriting ==
    /\ cli.op = "bind" => cli.find_calls = 1
    /\ (cli.op = "bind" /\ pc = "done" /\ cli.pc # "find") =>
         /\ cli.pc = "idle"
         /\ cli.raised = Some([type |-> "RuntimeError", msg |-> "libpython not found"])
         /\ disk = cli.disk0

\* a second command, bind, found no libpython and failed although iris.cpf
\* was there to back up and to write
C11_Witness ==
    /\ cli.op = "bind"
    /\ cli.commands = 2
    /\ cli.pc = "idle"
    /\ pc = "done"
    /\ cli.raised # None
    /\ cli.raised[1].msg = "libpython not found"
    /\ Truthy(environ.IRISINSTALLDIR)
    /\ IrisCpf \in DOMAIN disk

\* C12: once a backup of iris.cpf has been made for a Python path p, the
\* lookup of the backup file for p returns a path, that of an existing file
\* named iris.cpf.<md5 of p>, for the empty p too; the file is the copy taken.
C12_BackupIsFound ==
    /\ \A p \in cli.backed :
         LET lookup == get_backup_file(environ, disk, p, profile.is_windows)
         IN  /\ lookup.raised = None
             /\ lookup.value = Some(BackupOf(p))
             /\ BackupOf(p) \in DOMAIN disk
    /\ (cli.op = "unbind" /\ cli.backed # {}) =>
         cli.lookup = Some(BackupOf(get_path(environ, profile.is_windows)))
    /\ cli.pc = "update" =>
         disk[BackupOf(get_path(environ, profile.is_windows))] = cli.disk0[IrisCpf]

\* unbind looked up the backup a bind had made, where none was before
C12_Witness ==
    /\ cli.op = "unbind"
    /\ cli.backed # {}
    /\ cli.lookup # None
    /\ cli.lookup[1] \in DOMAIN disk
    /\ cli.commands = 2
    /\ \A p \in cli.backed : BackupOf(p) \notin DOMAIN cli.disk0 \/ cli.bound # None

\* C15: on Windows an unbind that succeeds leaves iris.cpf with the content
\* it had immediately before the most recent successful bind, which is the
\* content of the backup file; with no backup file for the path it leaves
\* every file as it was.
C15_UnbindRestores ==
    (profile.is_windows /\ cli.op = "unbind" /\ cli.raised = None) =>
        LET backup == BackupOf(get_path(environ, profile.is_windows))
        IN  IF backup \in DOMAIN cli.disk0
            THEN /\ disk = Write(cli.disk0, IrisCpf, cli.disk0[backup])
                 /\ cli.bound # None => disk[IrisCpf] = cli.bound[1]
            ELSE disk = cli.disk0

\* bind, bind, unbind on Windows: iris.cpf is back to what the first bind
\* wrote, not to what it was before it
C15_Witness ==
    /\ profile.is_windows
    /\ cli.op = "unbind"
    /\ cli.raised = None
    /\ cli.commands = 3
    /\ cli.bound # None
    /\ disk[IrisCpf] = cli.bound[1]
    /\ Contains(cli.bound[1], "PythonRuntimeLibrary=C:\\venv\\lib\\python311.dll\n")

====
